---- MODULE Spec2Model ----
(***************************************************************************)
(* Model of src/app.py: the artifact resolver (find_file_simple), the safe *)
(* loaders (load_model_safe, load_json_safe), the module-level artifact    *)
(* loading and the page gating of the Streamlit script.                    *)
(*                                                                         *)
(* The filesystem is a function from paths <<root, sub, name>> to the set  *)
(* of deserializers that succeed on the file's bytes; a path outside the   *)
(* function's domain does not exist.  A file (or directory) on which every *)
(* deserializer raises has the empty set.  A JSON document that is an      *)
(* array, not an object, carries "array" beside "json".  Probabilities and *)
(* thresholds are in percent.                                              *)
(*                                                                         *)
(* Streamlit executes the script top to bottom on every user interaction;  *)
(* one such execution is the action ScriptRun.  Streamlit's display calls  *)
(* (st.warning, st.markdown, st.set_page_config, ...) render and do not    *)
(* raise.  A deserializer that accepts a file returns an object, never     *)
(* None.                                                                   *)
(***************************************************************************)
EXTENDS Integers, Sequences, FiniteSets, TLC

VARIABLES
    fs,                    \* the filesystem: [paths -> SUBSET Deserializers]
    cwdIsBase,             \* the working directory is the script's directory
    TENSORFLOW_AVAILABLE,  \* line 27 / line 29
    threshold_json,        \* the "optimal_threshold" entry of threshold.json's object
    call,                  \* the last direct call of a resolver/loader function
    globals,               \* the module-level artifact variables, lines 115-124
    loads,                 \* per artifact file: load calls made in this process
    log,                   \* the loader calls of the last script run, in order
    runs,                  \* script runs executed in this session
    page,                  \* the sidebar radio's value, line 453
    target,                \* the Player page's radio value, line 720
    request,               \* the last run's prediction request: button clicked, step raising
    failed,                \* some prediction request of this session has failed
    sidebar,               \* the status marks of the sidebar, lines 417-448
    out                    \* what the last script run rendered

vars == <<fs, cwdIsBase, TENSORFLOW_AVAILABLE, threshold_json, call, globals,
          loads, log, runs, page, target, request, failed, sidebar, out>>

\* ------------------------------------------------------------------ bounds
MaxFiles == 2      \* files on disk when the functions are called directly
MaxBroken == 1     \* artifacts that differ from the shipped ones when the script runs
MaxRuns == 5       \* script runs per session

\* --------------------------------------------------------- python values
NoPath == 0        \* find_file_simple's None
None == [by |-> "None", at |-> 0]
EmptyDict == [by |-> "{}", at |-> 0]
Obj(des, loc) == [by |-> des, at |-> loc]

\* str.endswith
EndsWith(s, suf) ==
    /\ Len(s) >= Len(suf)
    /\ SubSeq(s, Len(s) - Len(suf) + 1, Len(s)) = suf

\* The value None passed where a filename is expected: no file has this name.
NoneArg == "<None>"

Deserializers == {"keras", "joblib", "pickle", "cloudpickle", "json"}

\* ------------------------------------------------------------ resolution
\* The candidate list of find_file_simple, in order.
locations ==
    << [root |-> "cwd",  sub |-> ""],
       [root |-> "base", sub |-> ""],
       [root |-> "base", sub |-> "models"],
       [root |-> "base", sub |-> "metadata"],
       [root |-> "cwd",  sub |-> "models"],
       [root |-> "cwd",  sub |-> "metadata"] >>

\* The file a candidate names: a relative candidate is taken from the working
\* directory, which may be the script's directory itself.
PathOf(i, filename) ==
    << IF cwdIsBase THEN "base" ELSE locations[i].root, locations[i].sub, filename >>

\* os.path.exists(location)
Exists(i, filename) == PathOf(i, filename) \in DOMAIN fs

\* The for loop of find_file_simple from candidate i on.
RECURSIVE ScanFrom(_, _)
ScanFrom(i, filename) ==
    IF i > Len(locations) THEN NoPath
    ELSE IF Exists(i, filename) THEN i
    ELSE ScanFrom(i + 1, filename)

\* Variant: the last existing candidate wins.
RECURSIVE ScanBack(_, _)
ScanBack(i, filename) ==
    IF i < 1 THEN NoPath
    ELSE IF Exists(i, filename) THEN i
    ELSE ScanBack(i - 1, filename)
find_file_last(filename) == ScanBack(Len(locations), filename)

\* Variant: the bare name is returned when no candidate exists.
find_file_or_name(filename) ==
    IF ScanFrom(1, filename) = NoPath THEN 1 ELSE ScanFrom(1, filename)

\* os.path.splitext(name)[0]
RECURSIVE LastDot(_, _)
LastDot(s, i) ==
    IF i = 0 THEN 0
    ELSE IF SubSeq(s, i, i) = "." THEN i
    ELSE LastDot(s, i - 1)
Stem(s) == IF LastDot(s, Len(s)) <= 1 THEN s ELSE SubSeq(s, 1, LastDot(s, Len(s)) - 1)

\* The alternate extensions the specification lists.
AltExtensions == <<".pkl", ".joblib", ".h5", ".json", ".csv">>
AltNames(filename) ==
    { Stem(filename) \o AltExtensions[k] : k \in 1..Len(AltExtensions) } \ {filename}

\* Variant: after the exact scan, the scan is repeated with each alternate
\* extension substituted.
RECURSIVE ScanAlternates(_, _)
ScanAlternates(k, filename) ==
    IF k > Len(AltExtensions) THEN NoPath
    ELSE IF ScanFrom(1, Stem(filename) \o AltExtensions[k]) # NoPath
    THEN ScanFrom(1, Stem(filename) \o AltExtensions[k])
    ELSE ScanAlternates(k + 1, filename)
find_file_broadened(filename) ==
    IF ScanFrom(1, filename) # NoPath THEN ScanFrom(1, filename)
    ELSE ScanAlternates(1, filename)

find_file_simple(filename) == ScanFrom(1, filename)

\* Building the candidate list raises TypeError when filename is no string.
find_file_raises(filename) == filename = NoneArg

\* ------------------------------------------------------------- the loaders
\* One deserializer applied to the file at candidate i: it returns an object
\* or raises (as it does on a path that does not exist).
Succeeds(des, i, filename) ==
    /\ Exists(i, filename)
    /\ des \in fs[PathOf(i, filename)]

Ret(obj, trace, warnings) ==
    [result |-> obj, raised |-> FALSE, trace |-> trace, warnings |-> warnings]
Raise(trace, warnings) ==
    [result |-> None, raised |-> TRUE, trace |-> trace, warnings |-> warnings]

\* Variant: the secondary deserializer is skipped.
PickleChain_skip_secondary(i, filename) ==
    IF Succeeds("joblib", i, filename)
    THEN Ret(Obj("joblib", i), <<"joblib">>, <<>>)
    ELSE IF Succeeds("cloudpickle", i, filename)
    THEN Ret(Obj("cloudpickle", i), <<"joblib", "cloudpickle">>, <<>>)
    ELSE Ret(None, <<"joblib", "cloudpickle">>,
             << "Failed to load " \o filename \o " with all methods" >>)

\* Variant: failure is declared as soon as the primary deserializer raises.
PickleChain_primary_only(i, filename) ==
    IF Succeeds("joblib", i, filename)
    THEN Ret(Obj("joblib", i), <<"joblib">>, <<>>)
    ELSE Ret(None, <<"joblib">>,
             << "Failed to load " \o filename \o " with all methods" >>)

\* The nested try blocks for '.pkl' and '.joblib' names.
PickleChain(i, filename) ==
    IF Succeeds("joblib", i, filename)
    THEN Ret(Obj("joblib", i), <<"joblib">>, <<>>)
    ELSE IF Succeeds("pickle", i, filename)
    THEN Ret(Obj("pickle", i), <<"joblib", "pickle">>, <<>>)
    ELSE IF Succeeds("cloudpickle", i, filename)
    THEN Ret(Obj("cloudpickle", i), <<"joblib", "pickle", "cloudpickle">>, <<>>)
    ELSE Ret(None, <<"joblib", "pickle", "cloudpickle">>,
             << "Failed to load " \o filename \o " with all methods" >>)

\* Variant: without a usable Keras load the generic deserializer is tried.
KerasBranch_falls_through(i, filename) ==
    IF TENSORFLOW_AVAILABLE /\ Succeeds("keras", i, filename)
    THEN Ret(Obj("keras", i), <<"keras">>, <<>>)
    ELSE IF Succeeds("joblib", i, filename)
    THEN Ret(Obj("joblib", i),
             (IF TENSORFLOW_AVAILABLE THEN <<"keras">> ELSE <<>>) \o <<"joblib">>, <<>>)
    ELSE Raise((IF TENSORFLOW_AVAILABLE THEN <<"keras">> ELSE <<>>) \o <<"joblib">>, <<>>)

\* The '.h5' branch.
KerasBranch(i, filename) ==
    IF TENSORFLOW_AVAILABLE
    THEN IF Succeeds("keras", i, filename)
         THEN Ret(Obj("keras", i), <<"keras">>, <<>>)
         ELSE Raise(<<"keras">>, <<>>)
    ELSE Ret(None, <<>>, << "Cannot load " \o filename \o ": TensorFlow not available" >>)

\* The branch for every other name.
DefaultBranch(i, filename) ==
    IF Succeeds("joblib", i, filename)
    THEN Ret(Obj("joblib", i), <<"joblib">>, <<>>)
    ELSE Raise(<<"joblib">>, <<>>)

\* Variant: the extension test ignores case.
Dispatch_ignores_case(i, filename) ==
    IF EndsWith(filename, ".h5") THEN KerasBranch(i, filename)
    ELSE IF \/ EndsWith(filename, ".pkl") \/ EndsWith(filename, ".PKL")
            \/ EndsWith(filename, ".joblib")
    THEN PickleChain(i, filename)
    ELSE DefaultBranch(i, filename)

\* The dispatch on the requested name.
Dispatch(i, filename) ==
    IF EndsWith(filename, ".h5") THEN KerasBranch(i, filename)
    ELSE IF EndsWith(filename, ".pkl") \/ EndsWith(filename, ".joblib")
    THEN PickleChain(i, filename)
    ELSE DefaultBranch(i, filename)

\* Variant: without a candidate the name itself is handed to the deserializer.
load_model_body_unchecked(filename) ==
    IF find_file_raises(filename) THEN Raise(<<>>, <<>>)
    ELSE LET file_path == find_file_simple(filename) IN
         Dispatch(IF file_path = NoPath THEN 1 ELSE file_path, filename)

\* Variant: a missing file is reported to nobody, as load_json_safe does.
load_model_body_silent(filename) ==
    IF find_file_raises(filename) THEN Raise(<<>>, <<>>)
    ELSE LET file_path == find_file_simple(filename) IN
         IF file_path = NoPath
         THEN Ret(None, <<>>, <<>>)
         ELSE Dispatch(file_path, filename)

\* The body of load_model_safe's try block.
load_model_body(filename) ==
    IF find_file_raises(filename) THEN Raise(<<>>, <<>>)
    ELSE LET file_path == find_file_simple(filename) IN
         IF file_path = NoPath
         THEN Ret(None, <<>>, << "File not found: " \o filename >>)
         ELSE Dispatch(file_path, filename)

\* Variant: no try block around the body.
load_model_unguarded(filename) == load_model_body(filename)

\* Variant: after a failed load the later candidates are tried in order.
load_model_retry(filename) ==
    LET r == load_model_body(filename)
        loadable == { i \in 1..Len(locations) :
                        /\ Exists(i, filename)
                        /\ ~Dispatch(i, filename).raised
                        /\ Dispatch(i, filename).result # None }
    IN IF find_file_raises(filename) \/ loadable = {}
       THEN IF r.raised
            THEN Ret(None, r.trace, r.warnings \o << "Error loading " \o filename >>)
            ELSE r
       ELSE Dispatch(CHOOSE i \in loadable : \A j \in loadable : i <= j, filename)

\* try: ... except Exception: warning, return None
load_model_safe(filename) ==
    LET r == load_model_body(filename) IN
    IF r.raised
    THEN Ret(None, r.trace, r.warnings \o << "Error loading " \o filename >>)
    ELSE r

\* What json.load returns for the document at candidate i: a dict for an
\* object, a list for an array.
JsonValue(i, filename) ==
    IF "array" \in fs[PathOf(i, filename)] THEN Obj("json-array", i) ELSE Obj("json", i)

\* The body of load_json_safe's try block.
load_json_body(filename) ==
    IF find_file_raises(filename) THEN Raise(<<>>, <<>>)
    ELSE LET file_path == find_file_simple(filename) IN
         IF file_path = NoPath THEN Ret(None, <<>>, <<>>)
         ELSE IF Succeeds("json", file_path, filename)
         THEN Ret(JsonValue(file_path, filename), <<"json">>, <<>>)
         ELSE Raise(<<"json">>, <<>>)

\* Variant: no try block around the body.
load_json_unguarded(filename) == load_json_body(filename)

\* try: ... except Exception: warning, return None
load_json_safe(filename) ==
    LET r == load_json_body(filename) IN
    IF r.raised
    THEN Ret(None, r.trace, r.warnings \o << "Error loading JSON " \o filename >>)
    ELSE r

\* ------------------------------------------- module-level artifact loading
\* The load statements of the script, in order; the last two are inside
\* "if TENSORFLOW_AVAILABLE".
LoadSequence ==
    << [var |-> "league_model",         fn |-> "load_model_safe", file |-> "rf_model.joblib",            needs_tf |-> FALSE],
       [var |-> "league_scaler",        fn |-> "load_model_safe", file |-> "scaler.joblib",              needs_tf |-> FALSE],
       [var |-> "league_metadata",      fn |-> "load_json_safe",  file |-> "model_metadata.json",        needs_tf |-> FALSE],
       [var |-> "threshold_data",       fn |-> "load_json_safe",  file |-> "threshold.json",             needs_tf |-> FALSE],
       [var |-> "goals_model",          fn |-> "load_model_safe", file |-> "xgb_goals_pipeline.pkl",     needs_tf |-> FALSE],
       [var |-> "assists_model",        fn |-> "load_model_safe", file |-> "xgb_assists_pipeline.pkl",   needs_tf |-> FALSE],
       [var |-> "goals_meta_json",      fn |-> "load_json_safe",  file |-> "metadata_goals.json",        needs_tf |-> FALSE],
       [var |-> "assists_meta_json",    fn |-> "load_json_safe",  file |-> "metadata_assists.json",      needs_tf |-> FALSE],
       [var |-> "match_model",          fn |-> "load_model_safe", file |-> "best_football_predictor.h5", needs_tf |-> TRUE],
       [var |-> "match_feature_scaler", fn |-> "load_model_safe", file |-> "feature_scaler.pkl",         needs_tf |-> TRUE] >>

ArtifactVars == { LoadSequence[i].var : i \in 1..Len(LoadSequence) }
ArtifactFiles == { LoadSequence[i].file : i \in 1..Len(LoadSequence) }
VarOf(file) == LoadSequence[CHOOSE i \in 1..Len(LoadSequence) : LoadSequence[i].file = file].var

\* "Initialize all models as None"
InitialGlobals ==
    [v \in ArtifactVars |-> IF v = "threshold_data" THEN EmptyDict ELSE None]

CallRec(fn, arg, r) ==
    [fn |-> fn, arg |-> arg, path |-> NoPath, result |-> r.result,
     raised |-> r.raised, trace |-> r.trace, warnings |-> r.warnings]

\* The value a load statement assigns: threshold.json's is "... or {}".
Assigned(v, result) ==
    IF v = "threshold_data" /\ result = None THEN EmptyDict ELSE result

\* Variant: the Match artifacts are loaded whatever the framework's state.
Skipped_never(s) == FALSE

\* "if TENSORFLOW_AVAILABLE:" around the Match artifacts' statements.
Skipped(s) == s.needs_tf /\ ~TENSORFLOW_AVAILABLE

\* The statements of the module-level try block from statement i on: an
\* exception leaving a loader would end the block at "except Exception".
RECURSIVE LoadFrom(_, _, _)
LoadFrom(i, g, lg) ==
    IF i > Len(LoadSequence) THEN [g |-> g, log |-> lg]
    ELSE LET s == LoadSequence[i] IN
         IF Skipped(s) THEN LoadFrom(i + 1, g, lg)
         ELSE LET r == IF s.fn = "load_model_safe"
                       THEN load_model_safe(s.file)
                       ELSE load_json_safe(s.file)
                  lg2 == Append(lg, CallRec(s.fn, s.file, r))
              IN IF r.raised THEN [g |-> g, log |-> lg2]
                 ELSE LoadFrom(i + 1, [g EXCEPT ![s.var] = Assigned(s.var, r.result)], lg2)

LoadArtifacts == LoadFrom(1, InitialGlobals, <<>>)

\* ------------------------------------------------------------ the pages
Pages == {"Dashboard", "Player Stats", "Match Predictor", "League Champion"}

Range(seq) == { seq[i] : i \in 1..Len(seq) }

\* What a script run rendered: the page, its view ("dashboard", the
\* unavailable "notice", the input "form" with its button, or "blank" when
\* the section renders nothing), the Player radio's options and value, the
\* button rendered, the artifacts an inference or transform call was made on,
\* the outcome of the prediction request, the probability and threshold of a
\* shown decision and the decision, whether the page-level handler showed its
\* error message, whether an exception left the script, and whether the
\* footer was reached.
Rendered(p, view, options, tgt, button, invoked, predict) ==
    [page |-> p, view |-> view, options |-> options, target |-> tgt,
     button |-> button, invoked |-> invoked, predict |-> predict,
     proba |-> 0, threshold |-> 0, decision |-> "-",
     error |-> FALSE, uncaught |-> FALSE, footer |-> TRUE]

\* An exception raised while the page section is rendered, outside the try
\* block of a prediction request: what was rendered before it stays.
PageRaises(p, options, tgt) ==
    [page |-> p, view |-> "partial", options |-> options, target |-> tgt,
     button |-> "-", invoked |-> <<>>, predict |-> "-",
     proba |-> 0, threshold |-> 0, decision |-> "-",
     error |-> FALSE, uncaught |-> TRUE, footer |-> FALSE]

\* obj.get(...) works on a dict; on a list it raises AttributeError.
HasGet(obj) == obj.by # "json-array"

\* The binary decision shown for a probability: "proba > threshold".
Decide(o, proba, threshold) ==
    IF o.predict # "ok" THEN o
    ELSE [o EXCEPT !.proba = proba, !.threshold = threshold,
                   !.decision = IF proba > threshold THEN "positive" ELSE "negative"]

\* Variant: once a request has failed, every later one fails at its first step.
Predict_sticky(p, view, options, tgt, button, steps, failAt) ==
    IF failed \/ (failAt # 0 /\ failAt <= Len(steps) + 1)
    THEN Rendered(p, view, options, tgt, button,
                  IF failed THEN <<>> ELSE SubSeq(steps, 1, failAt - 1), "failed")
    ELSE Rendered(p, view, options, tgt, button, steps, "ok")

\* A prediction request: the input row is built, then the calls of `steps`
\* are made in order; step number failAt raises (0: none does), which the try
\* block of the request catches and reports.
Predict(p, view, options, tgt, button, steps, failAt) ==
    IF failAt = 0 \/ failAt > Len(steps) + 1
    THEN Rendered(p, view, options, tgt, button, steps, "ok")
    ELSE Rendered(p, view, options, tgt, button, SubSeq(steps, 1, failAt - 1), "failed")

\* Variant: the Player page needs both models.
PlayerOptions_coupled(g) ==
    IF g["goals_model"] # None /\ g["assists_model"] # None
    THEN <<"Goals", "Assists">>
    ELSE <<>>

\* "Check which models are available" and the radio's options.
PlayerOptions(g) ==
    (IF g["goals_model"] # None THEN <<"Goals">> ELSE <<>>)
    \o (IF g["assists_model"] # None THEN <<"Assists">> ELSE <<>>)

PlayerPage(g, t, clicked, failAt) ==
    LET options == PlayerOptions(g) IN
    IF options = <<>>
    THEN Rendered("Player Stats", "notice", options, "-", "-", <<>>, "-")
    ELSE LET tgt == IF t \in Range(options) THEN t ELSE options[1]
             model == IF tgt = "Goals" THEN "goals_model" ELSE "assists_model"
             meta == IF tgt = "Goals" THEN "goals_meta_json" ELSE "assists_meta_json"
             button == "Predict " \o tgt
         IN IF g[meta] # None /\ g[model] # None
            THEN IF ~HasGet(g[meta]) THEN PageRaises("Player Stats", options, tgt)
                 ELSE IF clicked = button
                 THEN Predict("Player Stats", "form", options, tgt, button, <<model>>, failAt)
                 ELSE Rendered("Player Stats", "form", options, tgt, button, <<>>, "-")
            ELSE Rendered("Player Stats", "blank", options, tgt, "-", <<>>, "-")

\* The Match decision's fixed cutoff, "proba > 0.5".
MatchThreshold == 50

MatchPage(g, clicked, failAt, proba) ==
    LET button == "Predict Match Outcome" IN
    IF ~TENSORFLOW_AVAILABLE \/ g["match_model"] = None \/ g["match_feature_scaler"] = None
    THEN Rendered("Match Predictor", "notice", <<>>, "-", "-", <<>>, "-")
    ELSE IF clicked = button
         THEN Decide(Predict("Match Predictor", "form", <<>>, "-", button,
                             <<"match_feature_scaler", "match_model">>, failAt),
                     proba, MatchThreshold)
         ELSE Rendered("Match Predictor", "form", <<>>, "-", button, <<>>, "-")

\* The default of threshold_data.get("optimal_threshold", 0.5).
DefaultThreshold == 50

\* Variant: the default is used whatever the file says.
opt_thresh_default_only(g) == DefaultThreshold

\* opt_thresh = threshold_data.get("optimal_threshold", 0.5), for a dict.
opt_thresh(g) ==
    IF g["threshold_data"] # EmptyDict /\ threshold_json.has
    THEN threshold_json.value
    ELSE DefaultThreshold

\* Variant: the comparison is inclusive.
Decide_inclusive(o, proba, threshold) ==
    IF o.predict # "ok" THEN o
    ELSE [o EXCEPT !.proba = proba, !.threshold = threshold,
                   !.decision = IF proba >= threshold THEN "positive" ELSE "negative"]

\* The League decision, "if proba > opt_thresh".
LeagueDecide(o, proba, threshold) == Decide(o, proba, threshold)

\* Variant: the League gate does not test the scaler.
LeaguePage_scaler_unchecked(g, clicked, failAt, proba) ==
    LET button == "Predict Championship Chance" IN
    IF g["league_model"] = None \/ g["league_metadata"] = None
    THEN Rendered("League Champion", "notice", <<>>, "-", "-", <<>>, "-")
    ELSE IF ~HasGet(g["league_metadata"]) \/ ~HasGet(g["threshold_data"])
    THEN PageRaises("League Champion", <<>>, "-")
    ELSE IF clicked = button
         THEN LeagueDecide(Predict("League Champion", "form", <<>>, "-", button,
                                   <<"league_scaler", "league_model">>, failAt),
                           proba, opt_thresh(g))
         ELSE Rendered("League Champion", "form", <<>>, "-", button, <<>>, "-")

LeaguePage(g, clicked, failAt, proba) ==
    LET button == "Predict Championship Chance" IN
    IF g["league_model"] = None \/ g["league_scaler"] = None \/ g["league_metadata"] = None
    THEN Rendered("League Champion", "notice", <<>>, "-", "-", <<>>, "-")
    ELSE IF ~HasGet(g["league_metadata"]) \/ ~HasGet(g["threshold_data"])
    THEN PageRaises("League Champion", <<>>, "-")
    ELSE IF clicked = button
         THEN LeagueDecide(Predict("League Champion", "form", <<>>, "-", button,
                                   <<"league_scaler", "league_model">>, failAt),
                           proba, opt_thresh(g))
         ELSE Rendered("League Champion", "form", <<>>, "-", button, <<>>, "-")

\* The if/elif chain on the selected page.
PageBody(g, p, t, clicked, failAt, proba) ==
    IF p = "Dashboard"
    THEN Rendered("Dashboard", "dashboard", <<>>, "-", "-", <<>>, "-")
    ELSE IF p = "Player Stats" THEN PlayerPage(g, t, clicked, failAt)
    ELSE IF p = "Match Predictor" THEN MatchPage(g, clicked, failAt, proba)
    ELSE LeaguePage(g, clicked, failAt, proba)

\* Variant: no handler around the pages.
RenderPage_unhandled(g, p, t, clicked, failAt, proba) ==
    PageBody(g, p, t, clicked, failAt, proba)

\* try: the pages; except Exception: the error message; then the footer.
RenderPage(g, p, t, clicked, failAt, proba) ==
    LET body == PageBody(g, p, t, clicked, failAt, proba) IN
    IF body.uncaught
    THEN [body EXCEPT !.view = "error", !.error = TRUE, !.uncaught = FALSE,
                      !.footer = TRUE]
    ELSE body

\* ------------------------------------------------------- the script run
\* Load calls per artifact file in a run's log.
\* '"ok" if x else "warn"': a loaded artifact is an object, which is true.
Mark(obj) == IF obj # None THEN "ok" ELSE "warn"

\* The three status columns of the sidebar; the Player column shows the
\* Goals mark when either Player model is loaded.
Sidebar(g) ==
    [League |-> Mark(g["league_model"]),
     Player |-> IF g["goals_model"] # None \/ g["assists_model"] # None
                THEN Mark(g["goals_model"]) ELSE "warn",
     Match  |-> Mark(g["match_model"])]

NoSidebar == [League |-> "-", Player |-> "-", Match |-> "-"]

CountIn(lg, file) == Cardinality({ i \in 1..Len(lg) : lg[i].arg = file })

\* One execution of the script, top to bottom: the artifacts are loaded into
\* the module-level variables, then the selected page is rendered.
ScriptRun(p, t, clicked, failAt, proba) ==
    /\ runs < MaxRuns
    /\ \E ld \in {LoadArtifacts} :
       \E o \in {RenderPage(ld.g, p, t, clicked, failAt, proba)} :
       /\ runs' = runs + 1
       /\ globals' = ld.g
       /\ log' = ld.log
       /\ loads' = [f \in ArtifactFiles |-> loads[f] + CountIn(ld.log, f)]
       /\ page' = p
       /\ target' = o.target
       /\ request' = [clicked |-> clicked, failAt |-> failAt]
       /\ failed' = (failed \/ o.predict = "failed")
       /\ sidebar' = Sidebar(ld.g)
       /\ out' = o
       /\ UNCHANGED <<fs, cwdIsBase, TENSORFLOW_AVAILABLE, threshold_json, call>>

\* The session's first run: the sidebar radio has index=0.
FirstRun ==
    /\ runs = 0
    /\ ScriptRun("Dashboard", "-", "-", 0, 0)

\* The user picks another page in the sidebar.
SelectPage(p) ==
    /\ runs > 0
    /\ p # page
    /\ ScriptRun(p, "-", "-", 0, 0)

\* The user picks another option of the Player page's radio.
SelectTarget(t) ==
    /\ runs > 0
    /\ t \in Range(out.options)
    /\ t # out.target
    /\ ScriptRun(page, t, "-", 0, 0)

\* The user edits an input of the form shown.
EditInput ==
    /\ runs > 0
    /\ out.view = "form"
    /\ ScriptRun(page, target, "-", 0, 0)

\* The steps of a page's prediction request that can raise: building the input
\* row, then one call per artifact used.
RequestSteps(p) == IF p = "Player Stats" THEN 2 ELSE 3

\* The user clicks the prediction button shown; the call number failAt of the
\* request raises, and a classifier that answers gives the probability proba.
ClickPredict(failAt, proba) ==
    /\ runs > 0
    /\ out.button # "-"
    /\ failAt <= RequestSteps(page)
    /\ ScriptRun(page, target, out.button, failAt, proba)

\* ------------------------------------------------ the session's start state
NoCall ==
    [fn |-> "-", arg |-> "-", path |-> NoPath, result |-> None,
     raised |-> FALSE, trace |-> <<>>, warnings |-> <<>>]

NothingRendered ==
    [page |-> "-", view |-> "-", options |-> <<>>, target |-> "-",
     button |-> "-", invoked |-> <<>>, predict |-> "-",
     proba |-> 0, threshold |-> 0, decision |-> "-",
     error |-> FALSE, uncaught |-> FALSE, footer |-> FALSE]

NotStarted ==
    /\ call = NoCall
    /\ globals = InitialGlobals
    /\ loads = [f \in ArtifactFiles |-> 0]
    /\ log = <<>>
    /\ runs = 0
    /\ page = "Dashboard"
    /\ target = "-"
    /\ request = [clicked |-> "-", failAt |-> 0]
    /\ failed = FALSE
    /\ sidebar = NoSidebar
    /\ out = NothingRendered

\* The deployment: a model file sits in models/ and a JSON file in metadata/,
\* both beside the script.
IsJson(file) == \E i \in 1..Len(LoadSequence) :
    LoadSequence[i].file = file /\ LoadSequence[i].fn = "load_json_safe"
Home(file) == << "base", IF IsJson(file) THEN "metadata" ELSE "models", file >>
GoodBytes(file) ==
    IF IsJson(file) THEN {"json"}
    ELSE IF EndsWith(file, ".h5") THEN {"keras"}
    ELSE {"joblib", "pickle", "cloudpickle"}

\* The threshold.json the deployment ships, and one without the key.
ShippedThreshold == [has |-> TRUE, value |-> 70]
NoThresholdKey == [has |-> FALSE, value |-> 0]

\* The ways an artifact file can differ from the shipped one: missing from
\* the disk, bytes no deserializer accepts, and for a JSON file a document
\* that is an array, for threshold.json an object without the key.
Damages(f) ==
    {"missing", "corrupt"}
    \cup (IF IsJson(f) THEN {"array"} ELSE {})
    \cup (IF f = "threshold.json" THEN {"no key"} ELSE {})

DamagedBytes(f, d) ==
    IF d = "corrupt" THEN {}
    ELSE IF d = "array" THEN {"json", "array"}
    ELSE GoodBytes(f)

\* The app is started from its own directory, and up to MaxBroken artifacts
\* differ from the shipped deployment.
Init ==
    /\ NotStarted
    /\ cwdIsBase = TRUE
    /\ TENSORFLOW_AVAILABLE \in BOOLEAN
    /\ \E broken \in SUBSET ArtifactFiles :
         /\ Cardinality(broken) <= MaxBroken
         /\ \E damage \in [broken -> {"missing", "corrupt", "array", "no key"}] :
              /\ \A f \in broken : damage[f] \in Damages(f)
              /\ fs = [ pth \in { Home(f) : f \in { x \in ArtifactFiles :
                                      x \notin broken \/ damage[x] # "missing" } } |->
                          IF pth[3] \in broken THEN DamagedBytes(pth[3], damage[pth[3]])
                          ELSE GoodBytes(pth[3]) ]
              /\ threshold_json =
                    IF "threshold.json" \in broken /\ damage["threshold.json"] = "no key"
                    THEN NoThresholdKey ELSE ShippedThreshold

\* Probabilities a classifier answers with.
Probas == {30, 50, 70}

Next ==
    \/ FirstRun
    \/ \E p \in Pages : SelectPage(p)
    \/ \E t \in {"Goals", "Assists"} : SelectTarget(t)
    \/ EditInput
    \/ \E proba \in Probas : ClickPredict(0, proba)
    \/ \E failAt \in 1..3 : ClickPredict(failAt, 0)

Spec == Init /\ [][Next]_vars

\* ------------------------------------- the functions called on their own
\* Names the functions are called with; the filesystem holds copies of one
\* of them.
CallNames == {"model.joblib", "model.pkl", "net.h5", "model.PKL", "meta.json"}
Args == CallNames \cup {NoneArg}

\* Directories a file can be in: the candidate directories and data/.
Dirs == {"cwd", "base"} \X {"", "models", "metadata", "data"}

\* What the bytes of a file can be: unreadable by every deserializer (or a
\* directory), a joblib dump, a plain pickle, a pickle only cloudpickle
\* reads, a Keras archive, a JSON document.
FileKinds ==
    { {}, {"joblib", "pickle", "cloudpickle"}, {"pickle", "cloudpickle"},
      {"cloudpickle"}, {"keras"}, {"json"} }

\* The functions keep no state and change no file, so a call returns what it
\* would return as the first call: each behaviour makes one.
CallFindFile(filename) ==
    /\ call = NoCall
    /\ call' = [fn |-> "find_file_simple", arg |-> filename,
                path |-> IF find_file_raises(filename) THEN NoPath
                         ELSE find_file_simple(filename),
                result |-> None, raised |-> find_file_raises(filename),
                trace |-> <<>>, warnings |-> <<>>]
    /\ UNCHANGED <<fs, cwdIsBase, TENSORFLOW_AVAILABLE, threshold_json, globals,
                   loads, log, runs, page, target, request, failed, sidebar, out>>

\* The candidate the loader's own resolution found.
Resolved(filename) ==
    IF find_file_raises(filename) THEN NoPath ELSE find_file_simple(filename)

CallLoadModel(filename) ==
    /\ call = NoCall
    /\ \E r \in {load_model_safe(filename)} :
         call' = [CallRec("load_model_safe", filename, r) EXCEPT !.path = Resolved(filename)]
    /\ UNCHANGED <<fs, cwdIsBase, TENSORFLOW_AVAILABLE, threshold_json, globals,
                   loads, log, runs, page, target, request, failed, sidebar, out>>

CallLoadJson(filename) ==
    /\ call = NoCall
    /\ \E r \in {load_json_safe(filename)} :
         call' = [CallRec("load_json_safe", filename, r) EXCEPT !.path = Resolved(filename)]
    /\ UNCHANGED <<fs, cwdIsBase, TENSORFLOW_AVAILABLE, threshold_json, globals,
                   loads, log, runs, page, target, request, failed, sidebar, out>>

\* Up to MaxFiles copies of one name, each with bytes of some kind; with the
\* working directory being the script's directory every file is under it.
InitCall ==
    /\ NotStarted
    /\ threshold_json = ShippedThreshold
    /\ cwdIsBase \in BOOLEAN
    /\ TENSORFLOW_AVAILABLE \in BOOLEAN
    /\ \E name \in CallNames : \E dirs \in SUBSET Dirs :
         /\ Cardinality(dirs) <= MaxFiles
         /\ cwdIsBase => \A d \in dirs : d[1] = "base"
         /\ fs \in [ { <<d[1], d[2], name>> : d \in dirs } -> FileKinds ]

NextCall ==
    \/ \E filename \in Args : CallFindFile(filename)
    \/ \E filename \in Args : CallLoadModel(filename)
    \/ \E filename \in Args : CallLoadJson(filename)

SpecCall == InitCall /\ [][NextCall]_vars

\* =================================================================== claims
\* The candidates at which the name exists.
ExistingCandidates(filename) == { i \in 1..Len(locations) : Exists(i, filename) }

IsPickleName(filename) == EndsWith(filename, ".pkl") \/ EndsWith(filename, ".joblib")

\* C1: find_file_simple returns the earliest candidate, in the fixed candidate
\* order, whose path exists (so an earlier-priority copy wins over any later
\* one), and the result is a function of the filesystem state alone.
C1_FirstMatchWins ==
    (call.fn = "find_file_simple" /\ ~call.raised) =>
        LET E == ExistingCandidates(call.arg) IN
        IF E = {} THEN call.path = NoPath
        ELSE /\ call.path \in E
             /\ \A j \in E : call.path <= j

\* C1 witness: two different files of the name exist at candidates, and the
\* earlier one was returned.
C1_Witness ==
    /\ call.fn = "find_file_simple"
    /\ \E i, j \in ExistingCandidates(call.arg) :
         /\ i < j
         /\ PathOf(i, call.arg) # PathOf(j, call.arg)
         /\ call.path = i

\* C2: a name that exists at no candidate location resolves to None without
\* raising, and load_model_safe and load_json_safe return None for it without
\* raising and without calling a deserializer.
C2_MissingIsNone ==
    (call.fn # "-" /\ call.arg \in CallNames /\ ExistingCandidates(call.arg) = {}) =>
        /\ ~call.raised
        /\ call.path = NoPath
        /\ call.result = None
        /\ call.trace = <<>>

\* C2 witness: load_model_safe was called with a name no candidate holds,
\* while a file of that name lies outside the candidate list.
C2_Witness ==
    /\ call.fn = "load_model_safe"
    /\ call.arg \in CallNames
    /\ ExistingCandidates(call.arg) = {}
    /\ \E pth \in DOMAIN fs : pth[3] = call.arg
    /\ call.result = None
    /\ ~call.raised

\* C8 as claimed: when the exact name exists at no candidate but the same
\* base name with an alternate extension does, resolution returns a path.
C8_AlternateExtensionFound ==
    ( /\ call.fn = "find_file_simple"
      /\ call.arg \in CallNames
      /\ ExistingCandidates(call.arg) = {}
      /\ \E alt \in AltNames(call.arg) : ExistingCandidates(alt) # {} )
    => call.path # NoPath

\* C8 amended: resolution matches the exact requested name only; with the
\* exact name at no candidate the result is None even when the same base name
\* exists there with another extension, and a returned candidate holds a file
\* of exactly the requested name.
C8_ExactNameOnly ==
    (call.fn = "find_file_simple" /\ ~call.raised) =>
        /\ ExistingCandidates(call.arg) = {} => call.path = NoPath
        /\ call.path # NoPath => PathOf(call.path, call.arg) \in DOMAIN fs

\* C8 witness: 'model.joblib' was requested, only 'model.pkl' exists at a
\* candidate, and the result is None.
C8_Witness ==
    /\ call.fn = "find_file_simple"
    /\ call.arg = "model.joblib"
    /\ "model.pkl" \in AltNames(call.arg)
    /\ ExistingCandidates("model.pkl") # {}
    /\ call.path = NoPath

\* C5: extension-based dispatch is exclusive: a load_model_safe call with a
\* '.h5' name attempts none of joblib, pickle, cloudpickle, and a call with a
\* '.pkl' or '.joblib' name never attempts the Keras deserializer, on the
\* failure paths too.
C5_ExclusiveDispatch ==
    call.fn = "load_model_safe" =>
        /\ EndsWith(call.arg, ".h5") =>
             Range(call.trace) \cap {"joblib", "pickle", "cloudpickle"} = {}
        /\ IsPickleName(call.arg) => "keras" \notin Range(call.trace)

\* C5 witness: a '.h5' file was found whose bytes the generic deserializers
\* read and Keras does not; only Keras was attempted, and the call failed.
C5_Witness ==
    /\ call.fn = "load_model_safe"
    /\ EndsWith(call.arg, ".h5")
    /\ call.path # NoPath
    /\ Succeeds("joblib", call.path, call.arg)
    /\ call.trace = <<"keras">>
    /\ call.result = None

FallbackChain == <<"joblib", "pickle", "cloudpickle">>

\* C6: for a found '.pkl'/'.joblib' file the attempts are a prefix of joblib,
\* pickle, cloudpickle (fixed order, none repeated); a deserializer is
\* attempted only after every earlier one raised; when joblib raises, pickle
\* is attempted exactly once; failure is declared only after all three.
C6_FallbackOrder ==
    (call.fn = "load_model_safe" /\ IsPickleName(call.arg) /\ call.path # NoPath) =>
        LET t == call.trace IN
        /\ Len(t) \in 1..Len(FallbackChain)
        /\ t = SubSeq(FallbackChain, 1, Len(t))
        /\ \A k \in 2..Len(t) : \A j \in 1..(k - 1) :
             ~Succeeds(t[j], call.path, call.arg)
        /\ ~Succeeds("joblib", call.path, call.arg) =>
             Cardinality({ k \in 1..Len(t) : t[k] = "pickle" }) = 1
        /\ call.result = None => t = FallbackChain

\* C6 witness: joblib and pickle raised on the found file and cloudpickle
\* loaded it, after one attempt of each in order.
C6_Witness ==
    /\ call.fn = "load_model_safe"
    /\ IsPickleName(call.arg)
    /\ call.path # NoPath
    /\ ~Succeeds("joblib", call.path, call.arg)
    /\ ~Succeeds("pickle", call.path, call.arg)
    /\ call.trace = FallbackChain
    /\ call.result = Obj("cloudpickle", call.path)

\* C7: for a found '.pkl'/'.joblib' file, load_model_safe returns an object
\* and emits no warning whenever one of joblib, pickle, cloudpickle reads the
\* file; bytes only the secondary method reads yield the secondary's object.
C7_AnySuccessLoads ==
    (call.fn = "load_model_safe" /\ IsPickleName(call.arg) /\ call.path # NoPath) =>
        /\ (\E d \in Range(FallbackChain) : Succeeds(d, call.path, call.arg)) =>
             /\ call.result # None
             /\ call.warnings = <<>>
        /\ (~Succeeds("joblib", call.path, call.arg)
                /\ Succeeds("pickle", call.path, call.arg)) =>
             call.result = Obj("pickle", call.path)

\* C7 witness: the found file is one joblib cannot read and pickle can; the
\* call returned pickle's object without a warning.
C7_Witness ==
    /\ call.fn = "load_model_safe"
    /\ IsPickleName(call.arg)
    /\ call.path # NoPath
    /\ ~Succeeds("joblib", call.path, call.arg)
    /\ call.result = Obj("pickle", call.path)
    /\ call.warnings = <<>>

\* C9: load_model_safe never propagates an exception: for every argument,
\* filesystem, TensorFlow availability and deserializer outcome it returns
\* None or the object a deserializer built from the resolved file.
C9_NeverFatal ==
    call.fn = "load_model_safe" =>
        /\ ~call.raised
        /\ \/ call.result = None
           \/ /\ call.path # NoPath
              /\ call.result.at = call.path
              /\ call.result.by \in Range(call.trace)
              /\ Succeeds(call.result.by, call.path, call.arg)

\* C9 witness: a deserializer raised in a branch that has no try block of its
\* own (Keras on a '.h5' file), and the call returned None with a warning.
C9_Witness ==
    /\ call.fn = "load_model_safe"
    /\ EndsWith(call.arg, ".h5")
    /\ TENSORFLOW_AVAILABLE
    /\ call.path # NoPath
    /\ ~Succeeds("keras", call.path, call.arg)
    /\ ~call.raised
    /\ call.result = None
    /\ call.warnings = << "Error loading " \o call.arg >>

\* The artifact files whose module-level variable holds no loaded object.
NotLoaded(g) == { f \in ArtifactFiles : g[VarOf(f)] \in {None, EmptyDict} }

\* The artifact files loaded as something a page cannot use: a JSON array.
Malformed(g) == { f \in ArtifactFiles : ~HasGet(g[VarOf(f)]) }

\* The artifacts each prediction feature needs.
FeatureDeps ==
    [ League  |-> {"rf_model.joblib", "scaler.joblib", "model_metadata.json"},
      Goals   |-> {"xgb_goals_pipeline.pkl", "metadata_goals.json"},
      Assists |-> {"xgb_assists_pipeline.pkl", "metadata_assists.json"},
      Match   |-> {"best_football_predictor.h5", "feature_scaler.pkl"} ]

\* C3 as claimed: no artifact is resolved or deserialized a second time in
\* the process, whatever the number of re-renders.
C3_LoadedAtMostOnce == \A f \in ArtifactFiles : loads[f] <= 1

\* C4: when exactly one artifact is missing or unloadable and every other one
\* loaded (as the kind of value its page uses), every feature that does not depend on it is offered with its form
\* and its prediction button on its page.
C4_NoCrossFeatureCoupling ==
    runs > 0 =>
        \A f \in ArtifactFiles : (NotLoaded(globals) = {f} /\ Malformed(globals) = {}) =>
            /\ (out.page = "League Champion" /\ f \notin FeatureDeps.League) =>
                 /\ out.view = "form"
                 /\ out.button = "Predict Championship Chance"
            /\ (out.page = "Match Predictor" /\ f \notin FeatureDeps.Match) =>
                 /\ out.view = "form"
                 /\ out.button = "Predict Match Outcome"
            /\ out.page = "Player Stats" =>
                 \A tg \in {"Goals", "Assists"} : f \notin FeatureDeps[tg] =>
                     /\ tg \in Range(out.options)
                     /\ out.target = tg =>
                          /\ out.view = "form"
                          /\ out.button = "Predict " \o tg

\* C4 witness: only the goals model failed to load, and the Player page shows
\* the Assists form, whose prediction ran.
C4_Witness ==
    /\ runs > 0
    /\ NotLoaded(globals) = {"xgb_goals_pipeline.pkl"}
    /\ out.page = "Player Stats"
    /\ out.target = "Assists"
    /\ out.view = "form"
    /\ out.predict = "ok"

\* C10: with TensorFlow unavailable no load of best_football_predictor.h5 or
\* feature_scaler.pkl is attempted by the script, load_model_safe on a '.h5'
\* name returns None without calling the Keras deserializer and without
\* raising, every run reaches the footer, and the Match Predictor page shows
\* its unavailable notice and no form.
C10_NoTensorflow ==
    ~TENSORFLOW_AVAILABLE =>
        /\ \A f \in FeatureDeps.Match :
             /\ loads[f] = 0
             /\ \A k \in 1..Len(log) : log[k].arg # f
             /\ globals[VarOf(f)] = None
        /\ \A f \in { x \in ArtifactFiles : EndsWith(x, ".h5") } :
             /\ load_model_safe(f).result = None
             /\ ~load_model_safe(f).raised
             /\ "keras" \notin Range(load_model_safe(f).trace)
        /\ runs > 0 => out.footer
        /\ (runs > 0 /\ out.page = "Match Predictor") =>
             /\ out.view = "notice"
             /\ out.button = "-"

\* C10 witness: TensorFlow is unavailable, both Match artifacts are on disk
\* and intact, and the Match Predictor page rendered its notice.
C10_Witness ==
    /\ ~TENSORFLOW_AVAILABLE
    /\ runs > 0
    /\ \A f \in FeatureDeps.Match : Home(f) \in DOMAIN fs /\ fs[Home(f)] = GoodBytes(f)
    /\ out.page = "Match Predictor"
    /\ out.view = "notice"
    /\ out.footer

\* C11 as claimed: whenever an artifact the shown feature depends on exists at
\* no candidate location, the page section renders its unavailable notice and
\* no form; on the Player page the feature is the one the radio selects, and
\* its dependencies include its metadata file.
C11_AbsentRendersNotice ==
    runs > 0 =>
        \A f \in ArtifactFiles : ExistingCandidates(f) = {} =>
            /\ (out.page = "League Champion" /\ f \in FeatureDeps.League) =>
                 out.view = "notice" /\ out.button = "-"
            /\ (out.page = "Match Predictor" /\ f \in FeatureDeps.Match) =>
                 out.view = "notice" /\ out.button = "-"
            /\ (out.page = "Player Stats" /\ out.target \in {"Goals", "Assists"}) =>
                 (f \in FeatureDeps[out.target] =>
                      out.view = "notice" /\ out.button = "-")

\* How the disk leaves threshold.json: no candidate exists, the first existing
\* candidate does not parse, or it parses to an object.
ThresholdFileUsable ==
    /\ find_file_simple("threshold.json") # NoPath
    /\ Succeeds("json", find_file_simple("threshold.json"), "threshold.json")

\* C12: a League decision is positive exactly when the probability is strictly
\* above the threshold, so a probability equal to or below it is negative; the
\* threshold is the optimal_threshold entry of threshold.json, and 0.5 when
\* the file is absent, does not parse or has no such entry.
C12_StrictThreshold ==
    (runs > 0 /\ out.page = "League Champion" /\ out.decision # "-") =>
        /\ out.threshold = IF ThresholdFileUsable /\ threshold_json.has
                           THEN threshold_json.value ELSE DefaultThreshold
        /\ out.proba > out.threshold => out.decision = "positive"
        /\ out.proba <= out.threshold => out.decision = "negative"

\* A League decision at a probability equal to the threshold read from the file.
C12_Witness ==
    /\ runs > 0 /\ out.page = "League Champion"
    /\ ThresholdFileUsable /\ threshold_json.has
    /\ out.threshold = threshold_json.value
    /\ out.threshold # DefaultThreshold
    /\ out.proba = out.threshold
    /\ out.decision = "negative"

C14_FailureIsLocal ==
    /\ [](out.predict = "failed" =>
            /\ out.view = "form" /\ out.button # "-"
            /\ ~out.error /\ ~out.uncaught /\ out.footer)
    /\ [][out'.predict = "failed" => globals' = globals]_vars
    /\ []((request.clicked # "-" /\ request.failAt = 0) => out.predict = "ok")

\* A request that succeeded after an earlier request of the session failed.
C14_Witness ==
    /\ failed
    /\ request.clicked # "-" /\ request.failAt = 0
    /\ out.predict = "ok"
    /\ globals = LoadArtifacts.g

\* ------------------------------------------------ claims about the loaders
\* The first existing candidate of a name that has one.
FirstExisting(filename) ==
    CHOOSE i \in ExistingCandidates(filename) :
        \A j \in ExistingCandidates(filename) : i <= j

IsLoad(c) == c.fn \in {"load_model_safe", "load_json_safe"}

\* C15: load_json_safe reads the candidate find_file_simple returns; when
\* the argument is no name, no candidate exists or the located file does not
\* open or parse as JSON, the result is None; no exception leaves it.
C15_JsonNeverRaises ==
    call.fn = "load_json_safe" =>
        /\ ~call.raised
        /\ call.result # None =>
              /\ call.arg # NoneArg
              /\ ExistingCandidates(call.arg) # {}
              /\ call.result = Obj("json", FirstExisting(call.arg))
              /\ "json" \in fs[PathOf(FirstExisting(call.arg), call.arg)]
        /\ (call.arg = NoneArg \/ ExistingCandidates(call.arg) = {}) => call.result = None
        /\ (call.arg # NoneArg /\ ExistingCandidates(call.arg) # {}
              /\ "json" \notin fs[PathOf(FirstExisting(call.arg), call.arg)]) =>
                 call.result = None

\* load_json_safe met a file that does not parse and returned None.
C15_Witness ==
    /\ call.fn = "load_json_safe"
    /\ call.arg # NoneArg
    /\ ExistingCandidates(call.arg) # {}
    /\ "json" \notin fs[PathOf(FirstExisting(call.arg), call.arg)]
    /\ call.trace = <<"json">>
    /\ call.result = None
    /\ ~call.raised

\* The terminal state of a loader call, from what the call did: NotFound when
\* resolution gave no candidate, Loaded when the last deserializer invoked
\* accepted the file, LoadFailed otherwise.
Last(seq) == seq[Len(seq)]

Terminal(c) ==
    IF c.path = NoPath THEN "NotFound"
    ELSE IF c.trace # <<>> /\ Succeeds(Last(c.trace), c.path, c.arg)
            /\ (Last(c.trace) = "keras" => TENSORFLOW_AVAILABLE)
    THEN "Loaded"
    ELSE "LoadFailed"

\* C16: a loader call invokes deserializers only on a candidate resolution
\* found, every deserializer before the last one invoked refused the file,
\* and the caller gets an object exactly when the call ended Loaded, None
\* when it ended LoadFailed or NotFound.
C16_LoadStateMachine ==
    IsLoad(call) =>
        /\ ~call.raised
        /\ call.path = NoPath => call.trace = <<>>
        /\ \A k \in 1..(Len(call.trace) - 1) : ~Succeeds(call.trace[k], call.path, call.arg)
        /\ Terminal(call) = "Loaded" <=> call.result # None
        /\ call.result # None => call.result = Obj(Last(call.trace), call.path)

\* A call that went through a refused deserializer to Loaded.
C16_Witness ==
    /\ IsLoad(call)
    /\ Terminal(call) = "Loaded"
    /\ Len(call.trace) > 1
    /\ call.result # None

\* One call for each of the other two terminal states.
C16_WitnessNotFound ==
    /\ IsLoad(call) /\ call.arg # NoneArg
    /\ Terminal(call) = "NotFound" /\ call.result = None

C16_WitnessLoadFailed ==
    /\ IsLoad(call)
    /\ Terminal(call) = "LoadFailed" /\ call.trace # <<>> /\ call.result = None

\* The text `sub` occurs in the text s.
Contains(s, sub) ==
    \E k \in 1..(Len(s) - Len(sub) + 1) : SubSeq(s, k, k + Len(sub) - 1) = sub

\* C17: a load_model_safe call that returns None has shown exactly one
\* warning, whose text holds the requested name; a call that returns an
\* object has shown none; and the call returns to its caller either way.
C17_OneWarningPerFailure ==
    call.fn = "load_model_safe" =>
        /\ ~call.raised
        /\ call.result = None =>
              /\ Len(call.warnings) = 1
              /\ Contains(call.warnings[1], call.arg)
        /\ call.result # None => call.warnings = <<>>

\* The four kinds of failure: no file, '.h5' without TensorFlow, every
\* deserializer refusing a '.pkl', and an exception reaching the outer handler.
C17_Witness ==
    /\ call.fn = "load_model_safe"
    /\ call.result = None
    /\ call.path = NoPath /\ call.arg # NoneArg
    /\ call.warnings = << "File not found: " \o call.arg >>

C17_WitnessNoFramework ==
    /\ call.fn = "load_model_safe" /\ call.path # NoPath
    /\ EndsWith(call.arg, ".h5") /\ ~TENSORFLOW_AVAILABLE
    /\ Len(call.warnings) = 1

C17_WitnessAllFailed ==
    /\ call.fn = "load_model_safe" /\ call.path # NoPath
    /\ call.trace = <<"joblib", "pickle", "cloudpickle">>
    /\ call.result = None /\ Len(call.warnings) = 1

C17_WitnessOtherException ==
    /\ call.fn = "load_model_safe" /\ call.path # NoPath
    /\ call.trace \in {<<"joblib">>, <<"keras">>}
    /\ call.result = None /\ Len(call.warnings) = 1

\* The name has a copy in a data/ directory, under the script's directory or
\* the working directory.
InDataDir(filename) ==
    \E root \in {"cwd", "base"} : <<root, "data", filename>> \in DOMAIN fs

\* C18 as claimed: the candidates include data/ beside models/ and metadata/,
\* relative to the script's directory and to the working directory, so a
\* name with a copy in a data/ directory resolves to a candidate.
C18_DataDirSearched ==
    (call.fn = "find_file_simple" /\ call.arg # NoneArg /\ InDataDir(call.arg)) =>
        call.path # NoPath

\* The directories of the candidate list, as (root, subdirectory) pairs.
CandidateDirs == { <<locations[i].root, locations[i].sub>> : i \in 1..Len(locations) }

\* The rest of C18's list is the code's: both roots, and models/ and
\* metadata/ under both.
C18_ListWithoutData ==
    CandidateDirs = {"cwd", "base"} \X {"", "models", "metadata"}

\* C19: a loader call opens only the first existing candidate: an object it
\* returns comes from that candidate, and when no deserializer accepts that
\* candidate the call returns None, loadable copies at later candidates or not.
C19_OnlyFirstCandidateOpened ==
    (IsLoad(call) /\ call.arg # NoneArg /\ ExistingCandidates(call.arg) # {}) =>
        /\ call.path = FirstExisting(call.arg)
        /\ call.result # None => call.result.at = FirstExisting(call.arg)
        /\ (\A des \in Deserializers : ~Succeeds(des, FirstExisting(call.arg), call.arg))
              => call.result = None

\* The first existing candidate is unreadable, a later one holds a copy the
\* loader's deserializer accepts, and the call returned None.
C19_Witness ==
    /\ IsLoad(call) /\ call.arg # NoneArg
    /\ ExistingCandidates(call.arg) # {}
    /\ fs[PathOf(FirstExisting(call.arg), call.arg)] = {}
    /\ \E j \in ExistingCandidates(call.arg) :
         /\ j > FirstExisting(call.arg)
         /\ Succeeds(IF call.fn = "load_json_safe" THEN "json" ELSE "joblib", j, call.arg)
    /\ call.trace # <<>>
    /\ call.result = None

\* A name load_model_safe's extension tests do not recognise.
Unrecognised(filename) ==
    /\ filename # NoneArg
    /\ ~EndsWith(filename, ".h5")
    /\ ~EndsWith(filename, ".pkl")
    /\ ~EndsWith(filename, ".joblib")

\* C20: for a found file whose requested name ends in none of '.h5', '.pkl',
\* '.joblib' as written, load_model_safe invokes joblib once and nothing
\* else; when joblib refuses the file the result is None with one warning,
\* whatever the other deserializers would have made of it.
C20_DefaultIsPrimaryOnly ==
    (call.fn = "load_model_safe" /\ Unrecognised(call.arg) /\ call.path # NoPath) =>
        /\ call.trace = <<"joblib">>
        /\ "joblib" \in fs[PathOf(call.path, call.arg)] =>
               call.result = Obj("joblib", call.path)
        /\ "joblib" \notin fs[PathOf(call.path, call.arg)] =>
               /\ call.result = None
               /\ Len(call.warnings) = 1

\* 'model.PKL' holds a plain pickle: joblib refused it and nothing else was tried.
C20_Witness ==
    /\ call.fn = "load_model_safe"
    /\ call.arg = "model.PKL"
    /\ call.path # NoPath
    /\ "pickle" \in fs[PathOf(call.path, call.arg)]
    /\ "joblib" \notin fs[PathOf(call.path, call.arg)]
    /\ call.trace = <<"joblib">>
    /\ call.result = None

\* ------------------------------------------- claims about the pages' gates
\* C21: in every render, each artifact a transform or inference call was made
\* on is not None; the Player model is called only with the selected target's
\* metadata not None as well, the League calls only with model, scaler and
\* metadata all not None, and the Match calls only with TensorFlow there and
\* both Match artifacts not None.
C21_NoCallOnAbsentArtifact ==
    /\ \A v \in Range(out.invoked) : globals[v] # None
    /\ "goals_model" \in Range(out.invoked) =>
          /\ out.page = "Player Stats" /\ out.target = "Goals"
          /\ globals["goals_model"] # None /\ globals["goals_meta_json"] # None
    /\ "assists_model" \in Range(out.invoked) =>
          /\ out.page = "Player Stats" /\ out.target = "Assists"
          /\ globals["assists_model"] # None /\ globals["assists_meta_json"] # None
    /\ (Range(out.invoked) \cap {"league_scaler", "league_model"}) # {} =>
          /\ out.page = "League Champion"
          /\ globals["league_model"] # None /\ globals["league_scaler"] # None
          /\ globals["league_metadata"] # None
    /\ (Range(out.invoked) \cap {"match_feature_scaler", "match_model"}) # {} =>
          /\ out.page = "Match Predictor"
          /\ TENSORFLOW_AVAILABLE
          /\ globals["match_model"] # None /\ globals["match_feature_scaler"] # None

\* A League request made both calls while an artifact of another feature is
\* absent.
C21_Witness ==
    /\ out.page = "League Champion"
    /\ out.invoked = <<"league_scaler", "league_model">>
    /\ \E f \in ArtifactFiles : globals[VarOf(f)] = None

\* Whether a page renders a prediction form from the artifacts g.
LeagueFormShown(g) == LeaguePage(g, "-", 0, 0).view = "form"
MatchFormShown(g) == MatchPage(g, "-", 0, 0).view = "form"
PlayerFormShown(g) == \E t \in {"Goals", "Assists"} : PlayerPage(g, t, "-", 0).view = "form"

\* C22 as claimed: after a run, each sidebar column shows the available mark
\* exactly when its page renders at least one prediction form from the same
\* artifacts.
C22_SidebarAgreesWithPages ==
    runs > 0 =>
        /\ sidebar.League = "ok" <=> LeagueFormShown(globals)
        /\ sidebar.Player = "ok" <=> PlayerFormShown(globals)
        /\ sidebar.Match = "ok" <=> MatchFormShown(globals)

\* The three columns taken one at a time.
C22_LeagueColumnAgrees == runs > 0 => (sidebar.League = "ok" <=> LeagueFormShown(globals))
C22_PlayerColumnAgrees == runs > 0 => (sidebar.Player = "ok" <=> PlayerFormShown(globals))
C22_MatchColumnAgrees == runs > 0 => (sidebar.Match = "ok" <=> MatchFormShown(globals))

\* What does hold: a League or Match column that shows the unavailable mark
\* has a page without a form.
C22_WarnMeansNoForm ==
    runs > 0 =>
        /\ sidebar.League = "warn" => ~LeagueFormShown(globals)
        /\ sidebar.Match = "warn" => ~MatchFormShown(globals)


====
